---- MODULE Spec2Model ----
(***************************************************************************)
(* Model of the image-processing route (src/src/app/api/process-image/     *)
(* route.ts, POST) and of the page that calls it (src/src/app/page.tsx,    *)
(* Home).                                                                   *)
(*                                                                          *)
(* Text is a sequence of symbols.  A symbol is one character, or a run of   *)
(* characters that the route never splits:                                  *)
(*   "{" "}" "[" "]" "," ":"   the JSON punctuation                         *)
(*   "q"                       the double quote                             *)
(*   "F"                       three backticks (a Markdown fence)           *)
(*   "json"                    the letters json                             *)
(*   "w"                       one space                                    *)
(*   "a"                       one letter of prose                          *)
(*   "1"                       one digit                                    *)
(*   "true" "false" "null"     the letters of the JSON literals             *)
(*   any other string          the letters of a property name or of a       *)
(*                             fixed message ("language", "unknown", ...)   *)
(* Strings hold no quote and no backslash, so JSON escapes never occur.     *)
(***************************************************************************)
EXTENDS Integers, Sequences, FiniteSets, TLC

\* ------------------------------------------------------------------ bounds
\* Longest free-form reply (any symbols of RawSyms) the gateway returns.
MaxRawLen == 3
\* Most stanzas in a poem reply.
MaxStanzas == 2
\* Most requests the page has started and not yet forgotten.
MaxRequests == 2

\* ------------------------------------------------------- JavaScript values
\* A value: t is its type tag, s the text of a string or the digits of a
\* number, kids the elements of an array or the members of an object.
V(t, s, kids) == [t |-> t, s |-> s, kids |-> kids]
Undefined == V("undefined", <<>>, <<>>)
Null == V("null", <<>>, <<>>)
True == V("true", <<>>, <<>>)
False == V("false", <<>>, <<>>)
Str(s) == V("str", s, <<>>)
Num(s) == V("num", s, <<>>)
Arr(items) == V("arr", <<>>, items)
Obj(members) == V("obj", <<>>, members)
Member(k, v) == [k |-> k, v |-> v]

\* Boolean(x)
BooleanOf(b) == IF b THEN True ELSE False

\* JavaScript truthiness: used by !x, x || y, x && y and Boolean(x).
Truthy(v) ==
    CASE v.t = "undefined" -> FALSE
      [] v.t = "null" -> FALSE
      [] v.t = "false" -> FALSE
      [] v.t = "true" -> TRUE
      [] v.t = "str" -> v.s # <<>>
      [] v.t = "num" -> TRUE      \* the only digit is 1: no number is 0
      [] OTHER -> TRUE            \* objects and arrays

\* x || y
OrElse(x, y) == IF Truthy(x) THEN x ELSE y

\* typeof x === "object"
TypeofObject(v) == v.t \in {"obj", "arr", "null"}

\* Array.isArray(x)
IsArray(v) == v.t = "arr"

\* Reading x.key throws a TypeError exactly when x is null or undefined.
ReadThrows(v) == v.t \in {"null", "undefined"}

RECURSIVE LastMember(_, _, _)
LastMember(ms, key, i) ==
    IF i = 0 THEN Undefined
    ELSE IF ms[i].k = key THEN ms[i].v
    ELSE LastMember(ms, key, i - 1)

\* x.key for x not null and not undefined: a member of an object (the last
\* one of that name, as JSON.parse keeps the last duplicate), else undefined.
GetProp(v, key) ==
    IF v.t = "obj" THEN LastMember(v.kids, key, Len(v.kids)) ELSE Undefined

HasProp(v, key) == v.t = "obj" /\ \E i \in 1..Len(v.kids) : v.kids[i].k = key

\* ------------------------------------------------------------ text helpers
Min(a, b) == IF a < b THEN a ELSE b
Max(a, b) == IF a > b THEN a ELSE b

\* Number of "w" symbols from position i on.
RECURSIVE WsRun(_, _)
WsRun(s, i) == IF i <= Len(s) /\ s[i] = "w" THEN 1 + WsRun(s, i + 1) ELSE 0

\* String.prototype.trim
Trim(s) ==
    LET lead == WsRun(s, 1)
        IsEnd(j) == \A k \in (j + 1)..Len(s) : s[k] = "w"
        last == IF lead = Len(s) THEN lead
                ELSE CHOOSE j \in (lead + 1)..Len(s) : s[j] # "w" /\ IsEnd(j)
    IN SubSeq(s, lead + 1, last)

\* s.indexOf(c) and s.lastIndexOf(c), 0-based, -1 when c does not occur.
IndexOf(s, c) ==
    IF \E i \in 1..Len(s) : s[i] = c
    THEN (CHOOSE i \in 1..Len(s) : s[i] = c /\ \A j \in 1..(i - 1) : s[j] # c) - 1
    ELSE -1

LastIndexOf(s, c) ==
    IF \E i \in 1..Len(s) : s[i] = c
    THEN (CHOOSE i \in 1..Len(s) : s[i] = c /\ \A j \in (i + 1)..Len(s) : s[j] # c) - 1
    ELSE -1

\* s.substring(start, end), 0-based, end exclusive: arguments are clamped to
\* 0..length and swapped when start > end.
Substring(s, start, end) ==
    LET a == Max(0, Min(start, Len(s)))
        b == Max(0, Min(end, Len(s)))
    IN SubSeq(s, Min(a, b) + 1, Max(a, b))

\* ------------------------------------------------- fence removal (regex)
\* Length of the match of /```json\s*|\s*```/ that starts at position i, or 0
\* when neither alternative matches there.  The first alternative is tried
\* first; \s* is greedy and the fence must follow the spaces directly.
FenceJsonMatch(s, i) ==
    IF i + 1 <= Len(s) /\ s[i] = "F" /\ s[i + 1] = "json"
    THEN 2 + WsRun(s, i + 2)
    ELSE LET k == WsRun(s, i)
         IN IF i + k <= Len(s) /\ s[i + k] = "F" THEN k + 1 ELSE 0

\* Length of the match of /```\s*|\s*```/ that starts at position i, or 0.
FenceMatch(s, i) ==
    IF i <= Len(s) /\ s[i] = "F"
    THEN 1 + WsRun(s, i + 1)
    ELSE LET k == WsRun(s, i)
         IN IF i + k <= Len(s) /\ s[i + k] = "F" THEN k + 1 ELSE 0

\* s.replace(/```json\s*|\s*```/g, ""): leftmost matches, left to right.
RECURSIVE ReplaceFenceJson(_, _)
ReplaceFenceJson(s, i) ==
    IF i > Len(s) THEN <<>>
    ELSE LET m == FenceJsonMatch(s, i)
         IN IF m > 0 THEN ReplaceFenceJson(s, i + m)
            ELSE <<s[i]>> \o ReplaceFenceJson(s, i + 1)

\* s.replace(/```\s*|\s*```/g, "")
RECURSIVE ReplaceFence(_, _)
ReplaceFence(s, i) ==
    IF i > Len(s) THEN <<>>
    ELSE LET m == FenceMatch(s, i)
         IN IF m > 0 THEN ReplaceFence(s, i + m)
            ELSE <<s[i]>> \o ReplaceFence(s, i + 1)

\* cleanedContent after trim and the two replacements.
CleanedContent(content) ==
    ReplaceFence(ReplaceFenceJson(Trim(content), 1), 1)

\* ---------------------------------------------------------- JSON.stringify
\* A member whose value is undefined is left out; an undefined array element
\* is written as null.
RECURSIVE Stringify(_), StringifyMembers(_, _, _), StringifyItems(_, _)
Stringify(v) ==
    CASE v.t = "obj" -> <<"{">> \o StringifyMembers(v.kids, 1, TRUE) \o <<"}">>
      [] v.t = "arr" -> <<"[">> \o StringifyItems(v.kids, 1) \o <<"]">>
      [] v.t = "str" -> <<"q">> \o v.s \o <<"q">>
      [] v.t = "num" -> v.s
      [] v.t = "undefined" -> <<"null">>
      [] OTHER -> <<v.t>>

StringifyMembers(ms, i, first) ==
    IF i > Len(ms) THEN <<>>
    ELSE IF ms[i].v.t = "undefined" THEN StringifyMembers(ms, i + 1, first)
    ELSE (IF first THEN <<>> ELSE <<",">>)
         \o <<"q">> \o ms[i].k \o <<"q", ":">> \o Stringify(ms[i].v)
         \o StringifyMembers(ms, i + 1, FALSE)

StringifyItems(items, i) ==
    IF i > Len(items) THEN <<>>
    ELSE (IF i = 1 THEN <<>> ELSE <<",">>)
         \o Stringify(items[i]) \o StringifyItems(items, i + 1)

\* -------------------------------------------------------------- JSON.parse
\* A parse step answers [ok, v, i]: whether it succeeded, the value read and
\* the position after it.
ParseFail == [ok |-> FALSE, v |-> Undefined, i |-> 0]
ParseOk(v, i) == [ok |-> TRUE, v |-> v, i |-> i]

SkipWs(s, i) == i + WsRun(s, i)

\* Position of the quote closing a string whose text starts at i, 0 if none.
RECURSIVE ClosingQuote(_, _)
ClosingQuote(s, i) ==
    IF i > Len(s) THEN 0
    ELSE IF s[i] = "q" THEN i
    ELSE ClosingQuote(s, i + 1)

RECURSIVE DigitRun(_, _)
DigitRun(s, i) == IF i <= Len(s) /\ s[i] = "1" THEN 1 + DigitRun(s, i + 1) ELSE 0

ParseString(s, j) ==
    LET k == ClosingQuote(s, j + 1)
    IN IF k = 0 THEN ParseFail ELSE ParseOk(Str(SubSeq(s, j + 1, k - 1)), k + 1)

RECURSIVE ParseValue(_, _), ParseMembers(_, _, _), ParseItems(_, _, _)
ParseValue(s, i) ==
    LET j == SkipWs(s, i)
    IN IF j > Len(s) THEN ParseFail
       ELSE CASE s[j] = "{" ->
                   LET k == SkipWs(s, j + 1)
                   IN IF k <= Len(s) /\ s[k] = "}" THEN ParseOk(Obj(<<>>), k + 1)
                      ELSE ParseMembers(s, k, <<>>)
              [] s[j] = "[" ->
                   LET k == SkipWs(s, j + 1)
                   IN IF k <= Len(s) /\ s[k] = "]" THEN ParseOk(Arr(<<>>), k + 1)
                      ELSE ParseItems(s, k, <<>>)
              [] s[j] = "q" -> ParseString(s, j)
              [] s[j] = "1" ->
                   LET n == DigitRun(s, j)
                   IN ParseOk(Num(SubSeq(s, j, j + n - 1)), j + n)
              [] s[j] = "true" -> ParseOk(True, j + 1)
              [] s[j] = "false" -> ParseOk(False, j + 1)
              [] s[j] = "null" -> ParseOk(Null, j + 1)
              [] OTHER -> ParseFail

\* The members of an object from position i on, after those in acc.
ParseMembers(s, i, acc) ==
    LET j == SkipWs(s, i)
    IN IF j > Len(s) \/ s[j] # "q" THEN ParseFail
       ELSE LET key == ParseString(s, j)
                c == SkipWs(s, key.i)
            IN IF ~key.ok \/ c > Len(s) \/ s[c] # ":" THEN ParseFail
               ELSE LET val == ParseValue(s, c + 1)
                        e == SkipWs(s, val.i)
                        got == Append(acc, Member(key.v.s, val.v))
                    IN IF ~val.ok \/ e > Len(s) THEN ParseFail
                       ELSE IF s[e] = "}" THEN ParseOk(Obj(got), e + 1)
                       ELSE IF s[e] = "," THEN ParseMembers(s, e + 1, got)
                       ELSE ParseFail

\* The elements of an array from position i on, after those in acc.
ParseItems(s, i, acc) ==
    LET val == ParseValue(s, i)
        e == SkipWs(s, val.i)
        got == Append(acc, val.v)
    IN IF ~val.ok \/ e > Len(s) THEN ParseFail
       ELSE IF s[e] = "]" THEN ParseOk(Arr(got), e + 1)
       ELSE IF s[e] = "," THEN ParseItems(s, e + 1, got)
       ELSE ParseFail

\* JSON.parse(s): one value, spaces allowed around it, nothing else.
\* ok = FALSE stands for the SyntaxError it throws.
JSONParse(s) ==
    LET r == ParseValue(s, 1)
    IN IF r.ok /\ SkipWs(s, r.i) > Len(s) THEN r ELSE ParseFail

\* ------------------------------------------------------------ the gateway
\* What one call of openai.chat.completions.create can give the route.
\* The model's reply is any text.  Replies are drawn from three families:
\* free-form symbol sequences, JSON texts written from a value (bare, wrapped
\* in prose or wrapped in a Markdown fence), and the empty reply.
RawSyms == {"{", "}", "[", "]", ":", "q", "F", "json", "w", "a", "1", "null"}

SeqsUpTo(S, n) == UNION {[1..k -> S] : k \in 0..n}

FreeFormReplies == SeqsUpTo(RawSyms, MaxRawLen)

OptMember(key, vals) == {<<>>} \cup {<<Member(<<key>>, v)>> : v \in vals}

\* Elements a poem's content array may hold: stanzas with and without a
\* transliteration, with an empty one, with no field at all, with a field of
\* another type, and null in place of a stanza.
StanzaVals ==
    { Obj(<<Member(<<"original">>, Str(<<"a">>))>> \o r
          \o <<Member(<<"translation">>, Str(<<"a">>))>>)
        : r \in OptMember("transliteration", {Str(<<>>), Str(<<"a">>)}) }
    \cup {Obj(<<>>), Obj(<<Member(<<"original">>, Num(<<"1">>))>>), Null}

\* The objects the model may write that hold no array: each field present
\* or absent, of the type the prompt asks for or of another.
PlainObjects ==
    { Obj(l \o p \o c \o t)
        : l \in OptMember("language", {Str(<<>>), Str(<<"a">>)}),
          p \in OptMember("isPoem", {True, False, Str(<<"a">>)}),
          c \in OptMember("content", {Str(<<>>), Str(<<"a">>),
                                      Str(<<"a", "w", "F", "a">>), Num(<<"1">>)}),
          t \in OptMember("translation", {Str(<<>>), Str(<<"a">>)}) }

\* The objects whose content is an array of up to MaxStanzas elements.
PoemObjects ==
    { Obj(<<Member(<<"language">>, Str(<<"a">>)), Member(<<"isPoem">>, p),
            Member(<<"content">>, Arr(st))>>)
        : p \in {True, False, Str(<<"a">>)}, st \in SeqsUpTo(StanzaVals, MaxStanzas) }

ReplyObjects == PlainObjects \cup PoemObjects

\* Top-level values that are no mapping.
NonMappings ==
    {Arr(<<>>), Num(<<"1">>), Null, True, Str(<<"a">>),
     Arr(<<Obj(<<>>)>>),
     Arr(<<Obj(<<Member(<<"language">>, Str(<<"a">>))>>)>>),
     Arr(<<Obj(<<>>), Obj(<<>>)>>)}

WrapKinds == {"bare", "prose", "fenceJson", "fence", "fenceTag", "fenceTight"}
FenceKinds == {"fenceJson", "fence", "fenceTag", "fenceTight"}

\* The text J as the model may send it: as is, between two pieces of prose,
\* or in a Markdown fence with the tag json, with no tag, with another tag,
\* or with the tag json and no space around J.
Wrap(kind, J) ==
    CASE kind = "bare" -> J
      [] kind = "prose" -> <<"a", "w">> \o J \o <<"w", "a">>
      [] kind = "fenceJson" -> <<"F", "json", "w">> \o J \o <<"w", "F">>
      [] kind = "fence" -> <<"F", "w">> \o J \o <<"w", "F">>
      [] kind = "fenceTag" -> <<"F", "a", "w">> \o J \o <<"w", "F">>
      [] kind = "fenceTight" -> <<"F", "json">> \o J \o <<"F">>

\* An outcome of the call.  ok: the call resolved, with content raw (wrap and
\* v remember how a written reply was built; a free-form reply has wrap
\* "free").  Otherwise the call rejected with an Error: cause is what went
\* wrong, apiKey and rateLimit tell whether the Error's message contains the
\* text "API key" and the text "rate limit".  The message is the library's,
\* so every combination is possible for every cause.
Reply(raw, wrap, v) ==
    [ok |-> TRUE, raw |-> raw, wrap |-> wrap, v |-> v,
     cause |-> "none", apiKey |-> FALSE, rateLimit |-> FALSE]
Rejection(cause, apiKey, rateLimit) ==
    [ok |-> FALSE, raw |-> <<>>, wrap |-> "free", v |-> Undefined,
     cause |-> cause, apiKey |-> apiKey, rateLimit |-> rateLimit]

GatewayCauses == {"auth", "rateLimited", "other"}

GatewayOutcomes ==
    {Reply(raw, "free", Undefined) : raw \in FreeFormReplies}
    \cup {Reply(Wrap(k, Stringify(v)), k, v) : k \in WrapKinds, v \in ReplyObjects \cup NonMappings}
    \cup {Rejection(c, k, r) : c \in GatewayCauses, k \in BOOLEAN, r \in BOOLEAN}

\* ------------------------------------------------------------ the requests
\* Characters of the base64 alphabet [A-Za-z0-9+/=]: a letter, a digit, and
\* the three signs.
Base64Syms == {"a", "1", "+", "/", "="}

\* image.match(/^[A-Za-z0-9+/=]+$/): one or more characters, all of them of
\* the alphabet (without the m flag, $ matches at the very end only).
IsBase64(s) == s # <<>> /\ \A i \in 1..Len(s) : s[i] \in Base64Syms

\* Values the image field may hold: strings of the alphabet, strings with a
\* space or a dash in them, the empty string, and values that are no string.
ImageVals ==
    {Str(<<"a", "1", "+", "/", "=">>), Str(<<"a">>),
     Str(<<"a", "w", "a">>), Str(<<"-">>), Str(<<"w">>), Str(<<>>),
     Null, Num(<<"1">>), True, Arr(<<>>), Obj(<<>>)}

\* A request body.  syntaxOk: request.json() resolved, to the value v.
\* Otherwise it rejected with a SyntaxError, whose message may quote the
\* body: apiKey and rateLimit tell whether it contains those texts.
JsonBody(v) == [syntaxOk |-> TRUE, v |-> v, apiKey |-> FALSE, rateLimit |-> FALSE]
BadBody(apiKey, rateLimit) ==
    [syntaxOk |-> FALSE, v |-> Undefined, apiKey |-> apiKey, rateLimit |-> rateLimit]

RequestBodies ==
    {JsonBody(Obj(<<Member(<<"image">>, v)>>)) : v \in ImageVals}
    \cup {JsonBody(Obj(<<>>)), JsonBody(Null), JsonBody(Num(<<"1">>))}
    \cup {BadBody(k, r) : k \in BOOLEAN, r \in BOOLEAN}

\* ------------------------------------------------------- errors, responses
\* A thrown value: whether it is an Error, what its message contains, and
\* where it was thrown (the request body, the gateway with its cause, or
\* the normalization steps).
Thrown(isError, apiKey, rateLimit, from, cause) ==
    [isError |-> isError, apiKey |-> apiKey, rateLimit |-> rateLimit,
     from |-> from, cause |-> cause]
NoError == Thrown(FALSE, FALSE, FALSE, "none", "none")
TypeError(from) == Thrown(TRUE, FALSE, FALSE, from, "none")

\* Length of the excerpt of the reply an error response carries.
ExcerptLen == 500

\* NextResponse.json(value, {status}): body is what the client reads back
\* from the JSON text written; error, details and rawResponse are the
\* fields of an error body (hasRaw: rawResponse is there at all).
ResponseJson(v) == JSONParse(Stringify(v)).v

OkResponse(v) ==
    [status |-> 200, error |-> "", details |-> FALSE, hasRaw |-> FALSE,
     rawResponse |-> <<>>, body |-> ResponseJson(v), caught |-> FALSE]
ErrorResponse(status, error) ==
    [status |-> status, error |-> error, details |-> FALSE, hasRaw |-> FALSE,
     rawResponse |-> <<>>, body |-> Undefined, caught |-> FALSE]
NoResponse == ErrorResponse(0, "")

\* ------------------------------------------------ POST: validation (8-24)
\* const { image } = body: throws when body is null.
DestructureThrows(body) == ReadThrows(body)

\* ValidateImage without its second check: a route that forgot the format
\* check would send any non-empty string to the model.
ValidateImageNoFormat(img) ==
    IF ~Truthy(img) \/ img.t # "str"
    THEN ErrorResponse(400, "Invalid or missing image data")
    ELSE NoResponse

\* The 400 answer of the two checks on image, or NoResponse when both pass.
ValidateImage(img) ==
    IF ~Truthy(img) \/ img.t # "str"
    THEN ErrorResponse(400, "Invalid or missing image data")
    ELSE IF ~IsBase64(img.s)
    THEN ErrorResponse(400, "Invalid base64 image format")
    ELSE NoResponse

\* ------------------------------------- POST: extraction and parse (65-115)
\* FirstBrace that keeps the text before the first {: a route that sliced
\* from the start of the cleaned text would parse the prose too.
FirstBraceFromStart(cleaned) == IF IndexOf(cleaned, "{") = -1 THEN -1 ELSE 0

FirstBrace(cleaned) == IndexOf(cleaned, "{")
LastBrace(cleaned) == LastIndexOf(cleaned, "}")

\* jsonString: the text from the first { to the last }.
JsonString(cleaned) == Substring(cleaned, FirstBrace(cleaned), LastBrace(cleaned) + 1)

\* The answer when no JSON text is found.
NoJsonFound(content) ==
    ErrorResponse(500, "Invalid response format from OpenAI - no JSON found")

\* The answer when JSON.parse throws.
MalformedJson(content) ==
    [ErrorResponse(500, "Failed to parse OpenAI response as JSON") EXCEPT
        !.details = TRUE, !.hasRaw = TRUE,
        !.rawResponse = Substring(content, 0, ExcerptLen)]

\* Lines 65-115 on the reply's content: [resp, result], where resp is the
\* error answer returned, or NoResponse when result is the parsed value.
ExtractJson(content) ==
    IF content = <<>>
    THEN [resp |-> ErrorResponse(500, "No response from OpenAI"), result |-> Undefined]
    ELSE LET cleaned == CleanedContent(content)
         IN IF FirstBrace(cleaned) = -1 \/ LastBrace(cleaned) = -1
            THEN [resp |-> NoJsonFound(content), result |-> Undefined]
            ELSE LET p == JSONParse(JsonString(cleaned))
                 IN IF ~p.ok
                    THEN [resp |-> MalformedJson(content), result |-> Undefined]
                    ELSE [resp |-> NoResponse, result |-> p.v]

\* ----------------------------------------------- POST: coercion (117-150)
\* !result || typeof result !== "object"
InvalidShape(result) == ~Truthy(result) \/ ~TypeofObject(result)

\* ...(x && { translation: x }): the member when x is truthy, else nothing.
SpreadTranslation(x) ==
    IF Truthy(x) THEN <<Member(<<"translation">>, x)>> ELSE <<>>

\* validatedResult as first built (126-131).
ValidatedResult(result) ==
    Obj(<<Member(<<"language">>, OrElse(GetProp(result, <<"language">>), Str(<<"unknown">>))),
          Member(<<"isPoem">>, BooleanOf(Truthy(GetProp(result, <<"isPoem">>)))),
          Member(<<"content">>,
                 OrElse(GetProp(result, <<"content">>), Str(<<"No content extracted">>)))>>
        \o SpreadTranslation(GetProp(result, <<"translation">>)))

\* StanzaTransliteration with the default of the two other fields: a
\* callback written with || "" would put an empty string in every stanza.
StanzaTransliterationEmpty(stanza) ==
    OrElse(GetProp(stanza, <<"transliteration">>), Str(<<>>))

\* stanza.transliteration || undefined
StanzaTransliteration(stanza) ==
    OrElse(GetProp(stanza, <<"transliteration">>), Undefined)

\* The callback of content.map (142-146), for a stanza it can read.
MapStanza(stanza) ==
    Obj(<<Member(<<"original">>, OrElse(GetProp(stanza, <<"original">>), Str(<<>>))),
          Member(<<"transliteration">>, StanzaTransliteration(stanza)),
          Member(<<"translation">>, OrElse(GetProp(stanza, <<"translation">>), Str(<<>>)))>>)

\* validatedResult.isPoem && Array.isArray(validatedResult.content)
IsPoemArray(validated) ==
    /\ Truthy(GetProp(validated, <<"isPoem">>))
    /\ IsArray(GetProp(validated, <<"content">>))

\* content.map(...), in the order of the elements.
MapContent(items) == [i \in 1..Len(items) |-> MapStanza(items[i])]

\* validatedResult with its content replaced (141).
WithContent(validated, content) ==
    Obj([i \in 1..Len(validated.kids) |->
            IF validated.kids[i].k = <<"content">>
            THEN Member(<<"content">>, content)
            ELSE validated.kids[i]])

\* Lines 117-150 on the parsed value: [threw, resp].  threw: reading a
\* field of a stanza threw a TypeError (the stanza is null).
CoerceResult(result) ==
    IF InvalidShape(result)
    THEN [threw |-> FALSE, resp |-> ErrorResponse(500, "Invalid response object from OpenAI")]
    ELSE LET validated == ValidatedResult(result)
             items == GetProp(validated, <<"content">>).kids
         IN IF ~IsPoemArray(validated)
            THEN [threw |-> FALSE, resp |-> OkResponse(validated)]
            ELSE IF \E i \in 1..Len(items) : ReadThrows(items[i])
            THEN [threw |-> TRUE, resp |-> NoResponse]
            ELSE [threw |-> FALSE,
                  resp |-> OkResponse(WithContent(validated, Arr(MapContent(items))))]

\* -------------------------------------------------- POST: catch (151-180)
CatchResponse(err) ==
    [ (IF err.isError
       THEN IF err.apiKey
            THEN ErrorResponse(500, "OpenAI API key is missing or invalid")
            ELSE IF err.rateLimit
            THEN ErrorResponse(429, "Rate limit exceeded. Please try again later.")
            ELSE ErrorResponse(500, "Processing failed")
       ELSE ErrorResponse(500, "An unknown error occurred while processing the image"))
      EXCEPT !.caught = TRUE ]

\* The whole of POST after validation, for a gateway outcome.
RespondTo(outcome) ==
    IF ~outcome.ok
    THEN CatchResponse(Thrown(TRUE, outcome.apiKey, outcome.rateLimit, "gateway", outcome.cause))
    ELSE LET e == ExtractJson(outcome.raw)
         IN IF e.resp # NoResponse THEN e.resp
            ELSE LET c == CoerceResult(e.result)
                 IN IF c.threw THEN CatchResponse(TypeError("normalize")) ELSE c.resp

\* The whole of POST, for a request body and the outcome the gateway call
\* has if it is made.
PostResponse(body, outcome) ==
    IF ~body.syntaxOk
    THEN CatchResponse(Thrown(TRUE, body.apiKey, body.rateLimit, "body", "none"))
    ELSE IF DestructureThrows(body.v)
    THEN CatchResponse(TypeError("body"))
    ELSE LET r == ValidateImage(GetProp(body.v, <<"image">>))
         IN IF r # NoResponse THEN r ELSE RespondTo(outcome)

\* ----------------------------------------------------- the route's state
VARIABLES
    pc,       \* where POST stands: idle, body, validate, call, extract, coerce, catch, done
    req,      \* the request body
    image,    \* const { image }
    calls,    \* outbound calls made to the model API for this request
    gw,       \* the outcome of the gateway call
    result,   \* let result: the parsed reply
    thrown,   \* the value the catch block received
    resp      \* the response returned

\* The page's state (page.tsx, Home)
VARIABLES
    uiImage,    \* useState image: the selected file, NoFile for null
    response,   \* useState response: the result shown, Undefined for null
    loading,    \* useState loading
    error,      \* useState error: the message shown, "" for null
    debugInfo,  \* useState debugInfo: the excerpt shown, <<>> for null
    requests    \* the processImage calls started: where each one's callbacks stand

routeVars == <<pc, req, image, calls, gw, result, thrown, resp>>
uiVars == <<uiImage, response, loading, error, debugInfo, requests>>
vars == <<routeVars, uiVars>>

NoOutcome == Rejection("none", FALSE, FALSE)

RouteInit ==
    /\ pc = "idle"
    /\ req = JsonBody(Undefined)
    /\ image = Undefined
    /\ calls = 0
    /\ gw = NoOutcome
    /\ result = Undefined
    /\ thrown = NoError
    /\ resp = NoResponse

\* A file the user may pick: whether its type starts with image/, whether it
\* is over 10 MB, and the base64 text FileReader gives for its bytes.
NoFile == [isImage |-> FALSE, tooLarge |-> FALSE, payload |-> <<>>, none |-> TRUE]
File(isImage, tooLarge, payload) ==
    [isImage |-> isImage, tooLarge |-> tooLarge, payload |-> payload, none |-> FALSE]
Files ==
    {File(TRUE, FALSE, <<"a", "1", "=">>), File(TRUE, FALSE, <<>>),
     File(FALSE, FALSE, <<"a">>), File(TRUE, TRUE, <<"a">>)}

UIInit ==
    /\ uiImage = NoFile
    /\ response = Undefined
    /\ loading = FALSE
    /\ error = ""
    /\ debugInfo = <<>>
    /\ requests = <<>>

Init == RouteInit /\ UIInit

\* A request arrives.
Receive ==
    /\ pc = "idle"
    /\ \E b \in RequestBodies : req' = b
    /\ pc' = "body"
    /\ UNCHANGED <<image, calls, gw, result, thrown, resp>>
    /\ UNCHANGED uiVars

\* const { image } = await request.json()  (line 10)
ReadBody ==
    /\ pc = "body"
    /\ IF ~req.syntaxOk
       THEN /\ thrown' = Thrown(TRUE, req.apiKey, req.rateLimit, "body", "none")
            /\ pc' = "catch"
            /\ UNCHANGED image
       ELSE IF DestructureThrows(req.v)
       THEN /\ thrown' = TypeError("body")
            /\ pc' = "catch"
            /\ UNCHANGED image
       ELSE /\ image' = GetProp(req.v, <<"image">>)
            /\ pc' = "validate"
            /\ UNCHANGED thrown
    /\ UNCHANGED <<req, calls, gw, result, resp>>
    /\ UNCHANGED uiVars

\* The two checks on image (lines 11-24).
Validate ==
    /\ pc = "validate"
    /\ LET r == ValidateImage(image)
       IN IF r # NoResponse
          THEN resp' = r /\ pc' = "done"
          ELSE pc' = "call" /\ UNCHANGED resp
    /\ UNCHANGED <<req, image, calls, gw, result, thrown>>
    /\ UNCHANGED uiVars

\* await openai.chat.completions.create(...)  (lines 26-65)
CallGateway ==
    /\ pc = "call"
    /\ calls' = calls + 1
    /\ \E o \in GatewayOutcomes :
          /\ gw' = o
          /\ IF o.ok
             THEN pc' = "extract" /\ UNCHANGED thrown
             ELSE /\ thrown' = Thrown(TRUE, o.apiKey, o.rateLimit, "gateway", o.cause)
                  /\ pc' = "catch"
    /\ UNCHANGED <<req, image, result, resp>>
    /\ UNCHANGED uiVars

\* Lines 65-115: clean the reply, slice the JSON text, parse it.
Extract ==
    /\ pc = "extract"
    /\ LET e == ExtractJson(gw.raw)
       IN IF e.resp # NoResponse
          THEN resp' = e.resp /\ pc' = "done" /\ UNCHANGED result
          ELSE result' = e.result /\ pc' = "coerce" /\ UNCHANGED resp
    /\ UNCHANGED <<req, image, calls, gw, thrown>>
    /\ UNCHANGED uiVars

\* Lines 117-150: check the shape, coerce, answer.
Coerce ==
    /\ pc = "coerce"
    /\ LET c == CoerceResult(result)
       IN IF c.threw
          THEN thrown' = TypeError("normalize") /\ pc' = "catch" /\ UNCHANGED resp
          ELSE resp' = c.resp /\ pc' = "done" /\ UNCHANGED thrown
    /\ UNCHANGED <<req, image, calls, gw, result>>
    /\ UNCHANGED uiVars

\* Lines 151-180: the catch block.
Catch ==
    /\ pc = "catch"
    /\ resp' = CatchResponse(thrown)
    /\ pc' = "done"
    /\ UNCHANGED <<req, image, calls, gw, result, thrown>>
    /\ UNCHANGED uiVars

Next == Receive \/ ReadBody \/ Validate \/ CallGateway \/ Extract \/ Coerce \/ Catch

\* The route, serving one request.
Spec == Init /\ [][Next]_vars

\* ------------------------------------------------------ the page (page.tsx)
\* A processImage call: stage tells where it and its callbacks stand
\* (started: processImage itself is running, between setLoading(true) and its
\* finally block; reading: the FileReader is reading; fetching: onload
\* awaits fetch; done: onload returned; failed: a callback threw), resp is
\* the answer fetch gave.
Request(stage, f, r) == [stage |-> stage, file |-> f, resp |-> r]

\* processImage is running: it has no await, so it runs to its return
\* before any other handler or callback of the page.
Running == \E i \in 1..Len(requests) : requests[i].stage = "started"

\* What the model API may do for the requests the page sends.
UIOutcomes ==
    {Rejection("rateLimited", FALSE, TRUE), Rejection("auth", TRUE, FALSE),
     Rejection("other", FALSE, FALSE),
     Reply(<<>>, "free", Undefined), Reply(<<"a">>, "free", Undefined),
     Reply(<<"{", "a", "}">>, "free", Undefined)}
    \cup {Reply(Stringify(v), "bare", v)
            : v \in {Obj(<<Member(<<"language">>, Str(<<"a">>)),
                           Member(<<"isPoem">>, False),
                           Member(<<"content">>, Str(<<"a">>))>>),
                     Obj(<<Member(<<"isPoem">>, True),
                           Member(<<"content">>, Arr(<<Obj(<<>>)>>))>>)}}

\* JSON.stringify({ image: base64Image }) as the route reads it.
FetchBody(base64Image) == JsonBody(Obj(<<Member(<<"image">>, Str(base64Image))>>))

\* apiResponse.ok
ResponseOk(r) == r.status >= 200 /\ r.status <= 299

\* The message thrown for an answer that is not ok (lines 89-93, 98): the
\* answer's error, or the status line when it has none, then its details.
ErrorMessage(r) ==
    (IF r.error # "" THEN r.error ELSE "HTTP Error")
        \o (IF r.details THEN "\n\nDetails: ..." ELSE "")

\* handleImageUpload (33-53), for the file the user picked.
HandleImageUpload(f) ==
    /\ ~Running
    /\ IF ~f.isImage
       THEN /\ error' = "Please select a valid image file"
            /\ UNCHANGED <<uiImage, response, debugInfo>>
       ELSE IF f.tooLarge
       THEN /\ error' = "Image file is too large. Please select an image under 10MB."
            /\ UNCHANGED <<uiImage, response, debugInfo>>
       ELSE /\ uiImage' = f
            /\ response' = Undefined
            /\ error' = ""
            /\ debugInfo' = <<>>
    /\ UNCHANGED <<loading, requests>>
    /\ UNCHANGED routeVars

\* processImage (55-64, 120-122), from the click to the end of its try
\* block.  The button is enabled when an image is selected and loading is
\* false.  The function sets loading, clears error and debugInfo, starts
\* the FileReader and assigns its two callbacks.  Nothing in the try block
\* throws, so the catch block (123-127) does not run.
ProcessImage ==
    /\ ~Running
    /\ ~uiImage.none /\ ~loading
    /\ Len(requests) < MaxRequests
    /\ loading' = TRUE
    /\ error' = ""
    /\ debugInfo' = <<>>
    /\ requests' = Append(requests, Request("started", uiImage, NoResponse))
    /\ UNCHANGED <<uiImage, response>>
    /\ UNCHANGED routeVars

\* The finally block of processImage (128-130): it runs when the try block
\* ends, which is before the FileReader has read anything.
ProcessImageFinally(i) ==
    /\ requests[i].stage = "started"
    /\ loading' = FALSE
    /\ requests' = [requests EXCEPT ![i].stage = "reading"]
    /\ UNCHANGED <<uiImage, response, error, debugInfo>>
    /\ UNCHANGED routeVars

\* reader.onload up to its await of fetch (65-80).  A throw in this async
\* callback rejects the promise the callback returned, which nothing handles.
ReaderOnload(i) ==
    /\ ~Running
    /\ requests[i].stage = "reading"
    /\ requests' = [requests EXCEPT ![i].stage =
                      IF requests[i].file.payload = <<>> THEN "failed" ELSE "fetching"]
    /\ UNCHANGED <<uiImage, response, loading, error, debugInfo>>
    /\ UNCHANGED routeVars

\* reader.onerror (120-122): throws in the callback.
ReaderOnerror(i) ==
    /\ ~Running
    /\ requests[i].stage = "reading"
    /\ requests' = [requests EXCEPT ![i].stage = "failed"]
    /\ UNCHANGED <<uiImage, response, loading, error, debugInfo>>
    /\ UNCHANGED routeVars

\* !data || typeof data !== "object", !data.language || typeof data.isPoem !== "boolean"
DataInvalid(data) ==
    \/ ~Truthy(data) \/ ~TypeofObject(data)
    \/ ~Truthy(GetProp(data, <<"language">>))
    \/ GetProp(data, <<"isPoem">>).t \notin {"true", "false"}

\* reader.onload after fetch resolved with the answer r (82-117).
FetchResolve(i, r) ==
    /\ ~Running
    /\ requests[i].stage = "fetching"
    /\ IF ~ResponseOk(r)
       THEN /\ debugInfo' = IF r.hasRaw /\ r.rawResponse # <<>>
                            THEN r.rawResponse ELSE debugInfo
            /\ requests' = [requests EXCEPT ![i] = Request("failed", @.file, r)]
            /\ UNCHANGED response
       ELSE IF DataInvalid(r.body)
       THEN /\ requests' = [requests EXCEPT ![i] = Request("failed", @.file, r)]
            /\ UNCHANGED <<response, debugInfo>>
       ELSE /\ response' = r.body
            /\ requests' = [requests EXCEPT ![i] = Request("done", @.file, r)]
            /\ UNCHANGED debugInfo
    /\ UNCHANGED <<uiImage, loading, error>>
    /\ UNCHANGED routeVars

\* reader.onload after fetch rejected (the network failed): the catch at
\* 114-117 throws the error again.
FetchReject(i) ==
    /\ ~Running
    /\ requests[i].stage = "fetching"
    /\ requests' = [requests EXCEPT ![i].stage = "failed"]
    /\ UNCHANGED <<uiImage, response, loading, error, debugInfo>>
    /\ UNCHANGED routeVars

UINext ==
    \/ \E f \in Files : HandleImageUpload(f)
    \/ ProcessImage
    \/ \E i \in 1..Len(requests) : ProcessImageFinally(i)
    \/ \E i \in 1..Len(requests) : ReaderOnload(i)
    \/ \E i \in 1..Len(requests) : ReaderOnerror(i)
    \/ \E i \in 1..Len(requests), o \in UIOutcomes :
          FetchResolve(i, PostResponse(FetchBody(requests[i].file.payload), o))
    \/ \E i \in 1..Len(requests) : FetchReject(i)

\* The page, with the route answering its requests.
UISpec == Init /\ [][UINext]_vars

\* ================================================================ properties
\* The route's actions, taken one after the other, give the answer of
\* PostResponse.
StepsAgreeWithPostResponse == pc = "done" => resp = PostResponse(req, gw)

\* The gateway resolved with a reply that is not empty, and the route answered.
Answered == pc = "done" /\ gw.ok /\ gw.raw # <<>>

NoJsonFoundError == "Invalid response format from OpenAI - no JSON found"
MalformedJsonError == "Failed to parse OpenAI response as JSON"
InvalidShapeError == "Invalid response object from OpenAI"

Contains(s, c) == \E i \in 1..Len(s) : s[i] = c

\* C1: for every reply, the route ends with a 200 result or with one of the
\* three classified normalization failures, and never in its catch block.
C1_NormalizationNeverThrows ==
    Answered =>
        /\ ~resp.caught
        /\ \/ resp.status = 200
           \/ resp.status = 500
              /\ resp.error \in {NoJsonFoundError, MalformedJsonError, InvalidShapeError}

\* C2: a reply with no { or no } is answered 500 NoJsonFound, and the answer
\* carries an excerpt that is not empty, is at most 500 long and is the
\* start of the reply.
C2_NoJsonFoundCarriesExcerpt ==
    (Answered /\ (~Contains(gw.raw, "{") \/ ~Contains(gw.raw, "}"))) =>
        /\ resp.status = 500
        /\ resp.error = NoJsonFoundError
        /\ resp.hasRaw
        /\ resp.rawResponse # <<>>
        /\ Len(resp.rawResponse) <= 500
        /\ Len(resp.rawResponse) <= Len(gw.raw)
        /\ resp.rawResponse = SubSeq(gw.raw, 1, Len(resp.rawResponse))

\* The reply is the JSON text of a value that is no mapping.
TopLevelNotMapping ==
    \/ gw.wrap = "bare" /\ gw.v.t # "obj"
    \/ JSONParse(gw.raw).ok /\ JSONParse(gw.raw).v.t # "obj"

\* C3: a reply whose top-level JSON value is an array or a scalar never
\* gets a 200 result.
C3_NonMappingRejected ==
    (Answered /\ TopLevelNotMapping) => resp.status # 200

\* A string, a boolean.
IsStr(v) == v.t = "str"
IsBool(v) == v.t \in {"true", "false"}

\* The members of v are exactly those named in need, plus some of opt.
HasKeys(v, need, opt) ==
    /\ v.t = "obj"
    /\ \A k \in need : Cardinality({i \in 1..Len(v.kids) : v.kids[i].k = <<k>>}) = 1
    /\ \A i \in 1..Len(v.kids) : \E k \in need \cup opt : v.kids[i].k = <<k>>
    /\ \A i, j \in 1..Len(v.kids) : v.kids[i].k = v.kids[j].k => i = j

\* Stanza: { original: string, transliteration?: string, translation: string }
IsStanza(v) ==
    /\ HasKeys(v, {"original", "translation"}, {"transliteration"})
    /\ \A i \in 1..Len(v.kids) : IsStr(v.kids[i].v)

\* ExtractionResult: { language: string, isPoem: bool, content: Stanza[] |
\* string, translation?: string }, content an array exactly when isPoem.
IsCanonical(v) ==
    /\ HasKeys(v, {"language", "isPoem", "content"}, {"translation"})
    /\ IsStr(GetProp(v, <<"language">>))
    /\ IsBool(GetProp(v, <<"isPoem">>))
    /\ HasProp(v, <<"translation">>) => IsStr(GetProp(v, <<"translation">>))
    /\ LET c == GetProp(v, <<"content">>)
       IN IF GetProp(v, <<"isPoem">>) = True
          THEN IsArray(c) /\ \A i \in 1..Len(c.kids) : IsStanza(c.kids[i])
          ELSE IsStr(c)

\* The members of an object without those of the given names whose value
\* is falsy.
RECURSIVE DropFalsy(_, _)
DropFalsy(ms, names) ==
    IF ms = <<>> THEN <<>>
    ELSE (IF (\E n \in names : Head(ms).k = <<n>>) /\ ~Truthy(Head(ms).v)
          THEN <<>> ELSE <<Head(ms)>>)
         \o DropFalsy(Tail(ms), names)

\* A canonical object with its falsy translation and transliteration
\* fields left out.
OmitFalsyOptionals(v) ==
    Obj([i \in 1..Len(DropFalsy(v.kids, {"translation"})) |->
          LET m == DropFalsy(v.kids, {"translation"})[i]
          IN IF m.v.t = "arr"
             THEN Member(m.k, Arr([j \in 1..Len(m.v.kids) |->
                      Obj(DropFalsy(m.v.kids[j].kids, {"transliteration"}))]))
             ELSE m])

\* C4: the JSON text of a canonical object is answered 200 with that object,
\* its falsy translation and transliteration fields left out.
C4_RoundTrip ==
    (Answered /\ gw.wrap = "bare" /\ IsCanonical(gw.v)) =>
        /\ resp.status = 200
        /\ resp.body = OmitFalsyOptionals(gw.v)

\* C5: in every 200 result, content is a sequence of stanzas (string
\* original and translation), one per element of the reply's content and in
\* its order, when isPoem is true, and a string when isPoem is false.
C5_ResultShape ==
    (pc = "done" /\ resp.status = 200) =>
        LET c == GetProp(resp.body, <<"content">>)
            given == GetProp(result, <<"content">>)
        IN IF GetProp(resp.body, <<"isPoem">>) = True
           THEN /\ IsArray(c)
                /\ \A i \in 1..Len(c.kids) :
                      /\ c.kids[i].t = "obj"
                      /\ IsStr(GetProp(c.kids[i], <<"original">>))
                      /\ IsStr(GetProp(c.kids[i], <<"translation">>))
                /\ IsArray(given) /\ Len(given.kids) = Len(c.kids)
                /\ \A i \in 1..Len(c.kids) :
                      Truthy(GetProp(given.kids[i], <<"original">>)) =>
                          GetProp(c.kids[i], <<"original">>) = GetProp(given.kids[i], <<"original">>)
           ELSE IsStr(c)

\* The image field is absent, is no string, or holds a character outside
\* the base64 alphabet.
ImageRejectable(v) ==
    \/ v.t = "undefined"
    \/ v.t # "str"
    \/ \E i \in 1..Len(v.s) : v.s[i] \notin Base64Syms

\* request.json() gave a value whose image field can be read.
BodyRead == req.syntaxOk /\ ~DestructureThrows(req.v)

C7_429IffRateLimited ==
    pc = "done" => (resp.status = 429 <=> (~gw.ok /\ gw.cause = "rateLimited"))

\* The answer of the reply's content is an array of the poem branch: isPoem
\* is truthy and content is an array.
PoemReply ==
    /\ Truthy(GetProp(result, <<"isPoem">>))
    /\ IsArray(GetProp(result, <<"content">>))

\* C9: in the 200 result of a poem reply, a stanza whose transliteration is
\* missing or falsy has no transliteration field, and its original and
\* translation are the empty string when missing or falsy.
C9_AbsentTransliteration ==
    (pc = "done" /\ resp.status = 200 /\ PoemReply) =>
        LET given == GetProp(result, <<"content">>).kids
            out == GetProp(resp.body, <<"content">>)
        IN /\ IsArray(out) /\ Len(out.kids) = Len(given)
           /\ \A i \in 1..Len(given) :
                 ~Truthy(GetProp(given[i], <<"transliteration">>)) =>
                    /\ ~HasProp(out.kids[i], <<"transliteration">>)
                    /\ HasProp(out.kids[i], <<"original">>)
                    /\ HasProp(out.kids[i], <<"translation">>)
                    /\ \A k \in {"original", "translation"} :
                          GetProp(out.kids[i], <<k>>) =
                              IF Truthy(GetProp(given[i], <<k>>))
                              THEN GetProp(given[i], <<k>>) ELSE Str(<<>>)

C9_Witness ==
    /\ pc = "done" /\ resp.status = 200 /\ PoemReply
    /\ LET given == GetProp(result, <<"content">>).kids
       IN /\ Len(given) = 2
          /\ ~HasProp(given[1], <<"transliteration">>)
          /\ GetProp(given[1], <<"original">>) = Str(<<"a">>)
          /\ GetProp(given[2], <<"transliteration">>) = Str(<<>>)
          /\ ~HasProp(GetProp(resp.body, <<"content">>).kids[2], <<"transliteration">>)

\* Two answers are the same outcome: the same status, the same error, the
\* same result.
SameOutcome(r1, r2) ==
    /\ r1.status = r2.status
    /\ r1.error = r2.error
    /\ r1.body = r2.body
    /\ r1.caught = r2.caught

\* C10: the JSON text of an object, wrapped in a Markdown fence (tagged json,
\* untagged, or with another tag), gets the same outcome as the text alone.
C10_FenceSameOutcome ==
    (pc = "done" /\ gw.ok /\ gw.wrap \in FenceKinds /\ gw.v.t = "obj") =>
        SameOutcome(resp, RespondTo(Reply(Stringify(gw.v), "bare", gw.v)))

C10_Witness ==
    /\ pc = "done" /\ gw.ok /\ gw.wrap = "fence" /\ gw.v.t = "obj"
    /\ resp.status = 200
    /\ GetProp(resp.body, <<"isPoem">>) = True
    /\ Len(GetProp(resp.body, <<"content">>).kids) = 2

\* C8: when fetch resolves with an answer that is not ok, the page sets
\* error to the answer's message, and shows the answer's rawResponse as
\* debugInfo when it has one.
C8_NonOkAnswerShown ==
    [][\A i \in 1..Len(requests) :
          (/\ requests[i].stage = "fetching"
           /\ requests'[i].stage = "failed"
           /\ requests'[i].resp # NoResponse
           /\ ~ResponseOk(requests'[i].resp)) =>
              /\ error' = ErrorMessage(requests'[i].resp)
              /\ (requests'[i].resp.hasRaw /\ requests'[i].resp.rawResponse # <<>>) =>
                    debugInfo' = requests'[i].resp.rawResponse]_vars

\* A processImage request is outstanding: its file read or its fetch has
\* not yet completed or failed.
Outstanding(i) == requests[i].stage \in {"started", "reading", "fetching"}

\* C11: loading is true as long as a processImage request is outstanding,
\* so at most one request is outstanding at any time.
C11_LoadingWhileOutstanding ==
    /\ (\E i \in 1..Len(requests) : Outstanding(i)) => loading
    /\ Cardinality({i \in 1..Len(requests) : Outstanding(i)}) <= 1

====
